---- MODULE Spec2Model ----
(***************************************************************************)
(* State-machine model of DAPPER's statistics engine (src/stats.py):       *)
(* Stats.assess / assess_ens / assess_ext / derivative_stats / MGLS,       *)
(* Stats.average_in_time and average_each_field.                           *)
(*                                                                         *)
(* Numbers.  Weights are fixed-point integers in units of 1e-6 (Micro), so *)
(* that the tolerance 1e-5 of the weight check is 10 units and 1/3 is the  *)
(* rounded 333333.  Ensemble members, means and truths are integers; mu    *)
(* and err are stored in units of 1e-6.  Statistics that need sqrt, log or *)
(* an eigen-decomposition are stored as the expression that produced them. *)
(***************************************************************************)
EXTENDS Integers, Sequences, FiniteSets, TLC

VARIABLES
  cfg,      \* construction-time configuration: is_ens, N, LP, store_u, thr
  kNext,    \* the driver's next step index k
  kObsNext, \* the driver's next observation index
  series,   \* series[name][key]: the diagnostic FAU series of the engine
  has_w,    \* self._has_w
  lplot,    \* self.lplot: "absent" or "present"
  trace,    \* ordered log of every series read and write of the run
  last,     \* arguments and outcome of the latest assess call, the collaborators
            \* it invoked, and the series and the trace length before it
  aef,      \* average_each_field: input ss, axis and result
  ait,      \* average_in_time: attributes, grids, loop position and result
  rnk       \* rank histogram: ensemble, truth and result

vars == <<cfg, kNext, kObsNext, series, has_w, lplot, trace, last, aef, ait, rnk>>

engineVars == <<cfg, kNext, kObsNext, series, has_w, lplot, trace, last>>

----
(* Bounds *)

\* the driver assesses the steps k = 0..MaxK
MaxK == 1

\* rank histogram: ensembles of 1..MaxN members
MaxN == 3

\* average_each_field: 1..MaxTrials trials
MaxTrials == 4

\* average_in_time: grids and arrays of length 1..MaxLen
MaxLen == 3

\* average_in_time: at most MaxExtra attributes assigned by the user
MaxExtra == 2

----
(* Values *)

Micro == 1000000

\* 1e-5 in units of 1e-6
WeightTol == 10

comp_threshold_3 == 51

\* kObs=None
NoObs == -1

\* f_a_u=None
NoTag == "None"

\* a real finite number, a non-finite one (inf/nan), a complex one
Re(v) == [re |-> v, im |-> 0, fin |-> TRUE]
Inf == [re |-> 0, im |-> 0, fin |-> FALSE]
Cx(v) == [re |-> v, im |-> 1, fin |-> TRUE]

\* an argument: None, a scalar, a vector of entries, a matrix of rows
None == [kind |-> "None", s |-> 0, v |-> <<>>]
Scalar(s) == [kind |-> "scalar", s |-> s, v |-> <<>>]
Vec(v) == [kind |-> "vec", s |-> 0, v |-> v]
Mat(rows) == [kind |-> "mat", s |-> 0, v |-> rows]

IsNone(a) == a.kind = "None"

RECURSIVE SumSeq(_)
SumSeq(s) == IF s = <<>> THEN 0 ELSE Head(s) + SumSeq(Tail(s))

Abs(i) == IF i < 0 THEN -i ELSE i

\* the truth trajectory xx[k]
Truth(k) == <<2, 3>>

\* the state dimension m: xx.shape[1]
StateDim == Len(Truth(0))

\* the entries of a vector or of a matrix
Entries(a) == IF a.kind = "mat"
              THEN {a.v[i][j] : i \in DOMAIN a.v, j \in 1..StateDim}
              ELSE {a.v[i] : i \in DOMAIN a.v}

\* np.all(np.isfinite(a))
AllFinite(a) == \A e \in Entries(a) : e.fin

\* np.all(np.isreal(a))
AllReal(a) == \A e \in Entries(a) : e.im = 0

----
(* Errors *)

NoErr == [kind |-> "none", msg |-> "", step |-> <<>>]

Exc(kind, msg) == [kind |-> kind, msg |-> msg, step |-> <<>>]

\* raise_AFE(msg, time_index=None): time_index is <<>> when not passed
raise_AFE(msg, time_index) ==
  [kind |-> "AssimFailedError", msg |-> msg, step |-> time_index]

----
(* FAU series: item assignment and item access by key (k, kObs, tag) *)

NoSeries == [key \in {} |-> <<>>]

Written(f, key) == key \in DOMAIN f

\* self.<name>[key] = val
SetItem(st, name, key, val) ==
  [st EXCEPT
     !.series[name] = [x \in (DOMAIN @) \cup {key} |-> IF x = key THEN val ELSE @[x]],
     !.trace = Append(@, [op |-> "w", s |-> name, key |-> key])]

\* the evaluation of self.<name>[key]
GetItem(st, name, key) ==
  [st EXCEPT !.trace = Append(@, [op |-> "r", s |-> name, key |-> key])]

\* the value self.<name>[key] evaluates to (nan-filled until written)
Val(st, name, key) ==
  IF Written(st.series[name], key) THEN st.series[name][key] ELSE <<>>

Raise(st, e) == [st EXCEPT !.err = e]

----
(* Rank histogram (src/stats.py:184-186) *)

\* insert v into the ascending sequence s
RECURSIVE Insert(_, _)
Insert(v, s) == IF s = <<>> THEN <<v>>
                ELSE IF v <= Head(s) THEN <<v>> \o s
                ELSE <<Head(s)>> \o Insert(v, Tail(s))

\* np.sort(column): ascending
RECURSIVE SortAsc(_)
SortAsc(s) == IF s = <<>> THEN <<>> ELSE Insert(Head(s), SortAsc(Tail(s)))

\* column i of np.vstack((E,x)): the N members' i-th components, then x[i]
Column(E, x, i) == [r \in 1..(Len(E) + 1) |-> IF r <= Len(E) THEN E[r][i] ELSE x[i]]

\* fault: np.where(col == v)[0][-1], the last index at which col holds v
LastIndex(col, v) ==
  (CHOOSE j \in DOMAIN col : col[j] = v /\ \A h \in (j + 1)..Len(col) : col[h] # v) - 1

\* np.where(col == v)[0][0]: the first (0-based) index at which col holds v
FirstIndex(col, v) ==
  (CHOOSE j \in DOMAIN col : col[j] = v /\ \A h \in 1..(j - 1) : col[h] # v) - 1

\* the rank of the truth x among the members of E, per state dimension
RankHist(E, x) ==
  [i \in 1..Len(x) |-> FirstIndex(SortAsc(Column(E, x, i)), x[i])]

----
(* Stats.assess_ens, assess_ext, derivative_stats, MGLS *)

\* the real parts of a matrix's entries
RealParts(rows) == [r \in DOMAIN rows |-> [j \in DOMAIN rows[r] |-> rows[r][j].re]]

\* w @ E, with w in units of 1e-6
WeightedMean(wv, E) ==
  [j \in 1..Len(E[1]) |-> SumSeq([i \in 1..Len(E) |-> wv[i] * E[i][j]])]

\* fault: w.sum()-1 > 1e-5, the abs left out
WeightsOver(wv) == SumSeq(wv) - Micro > WeightTol

\* abs(w.sum()-1) > 1e-5
WeightsOff(wv) == Abs(SumSeq(wv) - Micro) > WeightTol

\* sqrt(m*N) <= Stats.comp_threshold_3
CheapEns(m, N, thr) == m * N <= thr * thr

\* m <= Stats.comp_threshold_3
CheapExt(m, thr) == m <= thr

\* MGLS(k)
MGLS(st, k) ==
  LET s1 == GetItem(st, "err", k)
      s2 == GetItem(s1, "var", k)
      s3 == GetItem(s2, "var", k)
      s4 == GetItem(s3, "err", k)
  IN SetItem(s4, "logp_m", k, <<"((var**(-1/2)*err)**2).sum()+log(var).sum())/m">>)

\* fault: the log score taken before err, rmv and rmse are stored
derivative_stats_ScoreFirst(st, k, x) ==
  LET s0 == MGLS(st, k)
      s1 == GetItem(s0, "mu", k)
      s2 == SetItem(s1, "err", k,
                    [i \in 1..Len(x) |-> Val(s1, "mu", k)[i] - x[i] * Micro])
      s3 == GetItem(s2, "var", k)
      s4 == SetItem(s3, "rmv", k, <<"sqrt(mean(var))">>)
      s5 == GetItem(s4, "err", k)
  IN SetItem(s5, "rmse", k, <<"sqrt(mean(err**2))">>)

\* derivative_stats(k, x)
derivative_stats(st, k, x) ==
  LET s1 == GetItem(st, "mu", k)
      s2 == SetItem(s1, "err", k,
                    [i \in 1..Len(x) |-> Val(s1, "mu", k)[i] - x[i] * Micro])
      s3 == GetItem(s2, "var", k)
      s4 == SetItem(s3, "rmv", k, <<"sqrt(mean(var))">>)
      s5 == GetItem(s4, "err", k)
      s6 == SetItem(s5, "rmse", k, <<"sqrt(mean(err**2))">>)
  IN MGLS(s6, k)

\* fault: lines 184-186 one level out, the rank histogram outside the `if`
ens_spectral_RankOutside(st, k, E, x, thr) ==
  LET N == Len(E)
      m == Len(E[1])
      s0 == IF CheapEns(m, N, thr)
            THEN LET s1 == SetItem(st, "svals", k,
                                   IF N <= m THEN <<"svd(sqrt(w)*A).s*sqrt(ub)">>
                                             ELSE <<"sqrt(eigh(A.T*w@A).s2*ub)">>)
                     s2 == GetItem(s1, "err", k)
                 IN SetItem(s2, "umisf", k,
                            IF N <= m THEN <<"UT@err">> ELSE <<"U.T[::-1]@err">>)
            ELSE st
  IN SetItem(s0, "rh", k, RankHist(E, x))

\* lines 171-186: the error-direction decomposition and the rank histogram
ens_spectral(st, k, E, x, thr) ==
  LET N == Len(E)
      m == Len(E[1])
  IN IF CheapEns(m, N, thr)
     THEN LET s1 == SetItem(st, "svals", k,
                            IF N <= m THEN <<"svd(sqrt(w)*A).s*sqrt(ub)">>
                                      ELSE <<"sqrt(eigh(A.T*w@A).s2*ub)">>)
              s2 == GetItem(s1, "err", k)
              s3 == SetItem(s2, "umisf", k,
                            IF N <= m THEN <<"UT@err">> ELSE <<"U.T[::-1]@err">>)
          IN SetItem(s3, "rh", k, RankHist(E, x))
     ELSE st

\* lines 142-186: the statistics of a validated ensemble E with weights wv
ens_stats(st, k, E, wv, thr) ==
  LET x  == Truth(k[1])
      s1 == SetItem(st, "w", k, wv)
      s2 == SetItem(s1, "mu", k, WeightedMean(wv, E))
      s3 == GetItem(s2, "mu", k)
      s4 == SetItem(s3, "var", k, <<"w@A**2">>)
      s5 == SetItem(s4, "mad", k, <<"w@abs(A)">>)
      s6 == GetItem(s5, "var", k)
      s7 == SetItem(s6, "var", k, Append(Val(s6, "var", k), "*ub"))
      s8 == GetItem(s7, "var", k)
      s9 == SetItem(s8, "skew", k, <<"mean(w@A**3/var**(3/2))">>)
      s10 == GetItem(s9, "var", k)
      s11 == SetItem(s10, "kurt", k, <<"mean(w@A**4/var**2-3)">>)
      s12 == derivative_stats(s11, k, x)
  IN ens_spectral(s12, k, E, x, thr)

\* assess_ens(k, E, w): k is the key (k, kObs, tag)
assess_ens(st, k, E, w, thr) ==
  IF IsNone(E)
  THEN Raise(st, Exc("AttributeError", "E.shape"))
  ELSE
    LET N  == Len(E.v)
        s1 == [st EXCEPT !.has_w = IF IsNone(w) THEN "False" ELSE "True"]
        w1 == IF IsNone(w) THEN Scalar(Micro \div N) ELSE w
    IN IF w1.kind = "scalar" /\ w1.s = 0
       THEN Raise(s1, Exc("AssertionError", "w != 0"))
       ELSE
         LET wv == IF w1.kind = "scalar" THEN [i \in 1..N |-> w1.s] ELSE w1.v
         IN IF WeightsOff(wv)
            THEN Raise(s1, raise_AFE("Weights did not sum to one.", <<>>))
            ELSE IF ~AllFinite(E)
            THEN Raise(s1, raise_AFE("Ensemble not finite.", <<>>))
            ELSE IF ~AllReal(E)
            THEN Raise(s1, raise_AFE("Ensemble not Real.", <<>>))
            ELSE ens_stats(s1, k, RealParts(E.v), wv, thr)

\* lines 197-210: the statistics of a validated Gaussian estimate
ext_stats(st, k, mu, P, thr) ==
  LET m  == Len(mu.v)
      x  == Truth(k[1])
      s1 == SetItem(st, "mu", k, [i \in 1..m |-> mu.v[i].re * Micro])
      s2 == SetItem(s1, "var", k, [i \in 1..m |-> P.v[i][i].re])
      s3 == GetItem(s2, "var", k)
      s4 == SetItem(s3, "mad", k, <<"sqrt(var)*sqrt(2/pi)">>)
      s5 == derivative_stats(s4, k, x)
  IN IF CheapExt(m, thr)
     THEN LET s6 == SetItem(s5, "svals", k, <<"sqrt(max(eigh(P).s2,0))[::-1]">>)
              s7 == GetItem(s6, "err", k)
          IN SetItem(s7, "umisf", k, <<"(U.T@err)[::-1]">>)
     ELSE s5

\* assess_ext(k, mu, P).  np.isfinite(None) is a TypeError; the `and` of lines
\* 192-193 evaluates its right operand only when the left one is true, and
\* what np.isreal(None) gives (line 193, reached with a non-finite real mu and
\* P=None) depends on the numpy build: isrealNone is TRUE when it evaluates.
assess_ext(st, k, mu, P, thr, isrealNone) ==
  IF IsNone(mu)
  THEN Raise(st, Exc("TypeError", "isfinite(mu)"))
  ELSE IF AllFinite(mu) /\ IsNone(P)
  THEN Raise(st, Exc("TypeError", "isfinite(P)"))
  ELSE IF AllReal(mu) /\ IsNone(P) /\ ~isrealNone
  THEN Raise(st, Exc("TypeError", "isreal(P)"))
  ELSE
    LET isFinite == AllFinite(mu) /\ AllFinite(P)
        isReal   == AllReal(mu) /\ AllReal(P)
    IN IF ~isFinite THEN Raise(st, raise_AFE("Estimates not finite.", <<k>>))
       ELSE IF ~isReal THEN Raise(st, raise_AFE("Estimates not Real.", <<k>>))
       ELSE ext_stats(st, k, mu, P, thr)

----
(* Stats.assess *)

\* fault: the kObs check of lines 74-76 left out
InitialChecks_ObsAllowed(c, k, kObs, E, mu) ==
  IF k # 0 THEN NoErr
  ELSE IF c.is_ens
  THEN IF IsNone(E) THEN Exc("TypeError", "Expected ensemble input, but E is None")
       ELSE IF ~IsNone(mu)
       THEN Exc("TypeError", "Expected ensemble input, but mu is not None")
       ELSE NoErr
  ELSE IF ~IsNone(E) THEN Exc("TypeError", "Expected mu/Cov input, but E is not None")
       ELSE IF IsNone(mu) THEN Exc("TypeError", "Expected ensemble input, but mu is None")
       ELSE NoErr

\* lines 72-86: the initial consistency checks
InitialChecks(c, k, kObs, E, mu) ==
  IF k # 0 THEN NoErr
  ELSE IF kObs # NoObs
  THEN Exc("KeyError", "Should not have any obs at initial time.")
  ELSE IF c.is_ens
  THEN IF IsNone(E) THEN Exc("TypeError", "Expected ensemble input, but E is None")
       ELSE IF ~IsNone(mu)
       THEN Exc("TypeError", "Expected ensemble input, but mu is not None")
       ELSE NoErr
  ELSE IF ~IsNone(E) THEN Exc("TypeError", "Expected mu/Cov input, but E is not None")
       ELSE IF IsNone(mu) THEN Exc("TypeError", "Expected ensemble input, but mu is None")
       ELSE NoErr

\* fault: 'fau' kept when kObs is None (lines 95-97 left out)
ResolveTag_KeepFau(f_a_u, kObs) ==
  IF f_a_u = NoTag
  THEN IF kObs = NoObs THEN "u" ELSE "au"
  ELSE f_a_u

\* lines 89-97: defaults for f_a_u
ResolveTag(f_a_u, kObs) ==
  IF f_a_u = NoTag
  THEN IF kObs = NoObs THEN "u" ELSE "au"
  ELSE IF f_a_u = "fau"
  THEN IF kObs = NoObs THEN "u" ELSE f_a_u
  ELSE f_a_u

\* fault: not (LP and store_u) and kObs==None
SkipAssessment_And(c, kObs) == ~(c.LP /\ c.store_u) /\ kObs = NoObs

\* line 102: not (LP or store_u) and kObs==None
SkipAssessment(c, kObs) == ~(c.LP \/ c.store_u) /\ kObs = NoObs

\* 'u' in f_a_u
HasU(tag) == tag \in {"u", "au", "fu", "fau"}

Call(fn, key, a, b) == [fn |-> fn, key |-> key, a |-> a, b |-> b]

\* lines 118-123: the live-plot collaborator
LivePlotStep(st, c, k, kObs, tag, a, b) ==
  IF ~c.LP THEN st
  ELSE IF k = 0
  THEN [st EXCEPT !.lplot = "present",
                  !.calls = Append(@, Call("LivePlot", <<>>, a, b))]
  ELSE IF HasU(tag)
  THEN IF st.lplot = "absent"
       THEN Raise(st, Exc("AttributeError", "self.lplot"))
       ELSE [st EXCEPT !.calls = Append(@, Call("lplot.update", <<k, kObs>>, a, b))]
  ELSE st

\* assess(k, kObs, f_a_u, E, w, mu, Cov)
assess(st, c, k, kObs, f_a_u, E, w, mu, Cov, isrealNone) ==
  LET chk == InitialChecks(c, k, kObs, E, mu)
      tag == ResolveTag(f_a_u, kObs)
      key == <<k, kObs, tag>>
  IN IF chk.kind # "none" THEN Raise(st, chk)
     ELSE IF SkipAssessment(c, kObs) THEN st
     ELSE IF c.is_ens
     THEN LET s1 == [st EXCEPT !.calls = Append(@, Call("assess_ens", key, E, w))]
              s2 == assess_ens(s1, key, E, w, c.thr)
          IN IF s2.err.kind # "none" THEN s2
             ELSE LivePlotStep(s2, c, k, kObs, tag, E, w)
     ELSE LET s1 == [st EXCEPT !.calls = Append(@, Call("assess_ext", key, mu, Cov))]
              s2 == assess_ext(s1, key, mu, Cov, c.thr, isrealNone)
          IN IF s2.err.kind # "none" THEN s2
             ELSE LivePlotStep(s2, c, k, kObs, tag, mu, Cov)

----
(* The engine at construction and the experiment driver *)

\* Stats.comp_threshold_3 is a class attribute "adjust[ed] to omit heavy
\* computations": its default, and a value below every modelled size
Thresholds == {comp_threshold_3, 1}

EnsSizes == {2, 3}

Configs ==
  [is_ens : {TRUE}, N : EnsSizes, LP : BOOLEAN, store_u : BOOLEAN, thr : Thresholds]
  \cup [is_ens : {FALSE}, N : {0}, LP : BOOLEAN, store_u : BOOLEAN, thr : Thresholds]

\* lines 30-54: the series allocated by __init__
SeriesNames(c) ==
  {"mu", "var", "mad", "err", "logp_m", "skew", "kurt", "rmv", "rmse", "svals", "umisf"}
  \cup (IF c.is_ens THEN {"w", "rh"} ELSE {})

\* the size of the ensembles the caller passes (a Gaussian-mode engine has no N)
CallerN(c) == IF c.is_ens THEN c.N ELSE 3

GoodEns(N) == Mat([i \in 1..N |-> <<Re(2 * i - 1), Re(IF i < 3 THEN 3 ELSE 4)>>])
NonFiniteEns(N) == Mat([i \in 1..N |-> <<IF i = 1 THEN Inf ELSE Re(3), Re(3)>>])
ComplexEns(N) == Mat([i \in 1..N |-> <<Re(1), IF i = N THEN Cx(3) ELSE Re(3)>>])
NonFiniteComplexEns(N) == Mat([i \in 1..N |-> <<IF i = 1 THEN Inf ELSE Cx(3), Re(3)>>])

\* np.ones(N)/N as stored, and the same with its first weight changed by d
UniformW(N) == Vec([i \in 1..N |-> Micro \div N])
SkewedW(N, d) == Vec([i \in 1..N |-> IF i = 1 THEN (Micro \div N) - d ELSE Micro \div N])
HalvesW(N) == Vec([i \in 1..N |-> Micro \div 2])

GoodMu == Vec(<<Re(2), Re(4)>>)
NonFiniteMu == Vec(<<Inf, Re(4)>>)
ComplexMu == Vec(<<Re(2), Cx(4)>>)
NonFiniteComplexMu == Vec(<<Inf, Cx(4)>>)

GoodCov == Mat(<<<<Re(2), Re(1)>>, <<Re(1), Re(3)>>>>)
NonFiniteCov == Mat(<<<<Re(2), Inf>>, <<Inf, Re(3)>>>>)
ComplexCov == Mat(<<<<Re(2), Cx(1)>>, <<Cx(1), Re(3)>>>>)

Prm(E, w, mu, Cov) == [E |-> E, w |-> w, mu |-> mu, Cov |-> Cov]

\* the estimates a caller may pass: every presence/absence pattern of the two
\* paradigms' inputs, every kind of weight argument, every kind of invalid
\* ensemble and of invalid Gaussian estimate
Estimates(N) ==
  {Prm(E, o[1], mu, o[2]) : E \in {None, GoodEns(N)}, mu \in {None, GoodMu},
                             o \in {<<None, None>>, <<UniformW(N), GoodCov>>}}
  \cup {Prm(GoodEns(N), w, None, None) :
          w \in {Scalar(Micro \div 2), Scalar(0), HalvesW(N),
                 SkewedW(N, WeightTol - 1), SkewedW(N, WeightTol)}}
  \cup {Prm(E, None, None, None) :
          E \in {NonFiniteEns(N), ComplexEns(N), NonFiniteComplexEns(N)}}
  \cup {Prm(NonFiniteEns(N), HalvesW(3), None, None)}
  \cup {Prm(None, None, mu, GoodCov) : mu \in {NonFiniteMu, ComplexMu}}
  \cup {Prm(None, None, GoodMu, P) : P \in {NonFiniteCov, ComplexCov}}
  \cup {Prm(None, None, mu, None) : mu \in {NonFiniteMu, NonFiniteComplexMu}}

TagInputs == {NoTag, "u", "a", "f", "au", "fau"}

\* what the driver passes at step k: at k=0, where the arguments are validated,
\* every estimate with every tag; later, every estimate with the default tag
\* and every tag with a well-formed estimate
InputsFor(is_ens, N, first) ==
  LET wellFormed == IF is_ens THEN Prm(GoodEns(N), None, None, None)
                              ELSE Prm(None, None, GoodMu, GoodCov)
  IN IF first THEN Estimates(N) \X TagInputs
     ELSE (Estimates(N) \X {NoTag}) \cup ({wellFormed} \X TagInputs)

InputsTable ==
  [is_ens \in BOOLEAN, N \in EnsSizes, first \in BOOLEAN |-> InputsFor(is_ens, N, first)]

CallInputs(c, k) == InputsTable[c.is_ens, CallerN(c), k = 0]

NoCall ==
  [k |-> -1, kObs |-> NoObs, f_a_u |-> NoTag, E |-> None, w |-> None, mu |-> None,
   Cov |-> None, err |-> NoErr, calls |-> <<>>, t0 |-> 0, before |-> <<>>]

InitEngine ==
  /\ cfg \in Configs
  /\ kNext = 0
  /\ kObsNext = 0
  /\ series = [n \in SeriesNames(cfg) |-> NoSeries]
  /\ has_w = "unset"
  /\ lplot = "absent"
  /\ trace = <<>>
  /\ last = NoCall

\* the driver's call of assess at step kNext, one call per step in increasing
\* k; an exception propagates to the driver and ends the run
Assess ==
  /\ kNext <= MaxK
  /\ last.err.kind = "none"
  /\ \E kObs \in {NoObs, kObsNext}, in \in CallInputs(cfg, kNext) :
     \E isrealNone \in (IF IsNone(in[1].Cov) /\ ~IsNone(in[1].mu) /\ ~cfg.is_ens
                        THEN BOOLEAN ELSE {TRUE}) :
       LET p  == in[1]
           st == [series |-> series, trace |-> trace, has_w |-> has_w,
                  lplot |-> lplot, calls |-> <<>>, err |-> NoErr]
           r  == assess(st, cfg, kNext, kObs, in[2], p.E, p.w, p.mu, p.Cov, isrealNone)
       IN /\ series' = r.series
          /\ trace' = r.trace
          /\ has_w' = r.has_w
          /\ lplot' = r.lplot
          /\ last' = [k |-> kNext, kObs |-> kObs, f_a_u |-> in[2], E |-> p.E,
                      w |-> p.w, mu |-> p.mu, Cov |-> p.Cov, err |-> r.err,
                      calls |-> r.calls, t0 |-> Len(trace), before |-> series]
          /\ kNext' = kNext + 1
          /\ kObsNext' = IF kObs = NoObs THEN kObsNext ELSE kObsNext + 1
  /\ UNCHANGED <<cfg, aef, ait, rnk>>

\* the series, the trace and the driver as construction leaves them
IdleEngine ==
  /\ kNext = 0
  /\ kObsNext = 0
  /\ series = [n \in SeriesNames(cfg) |-> NoSeries]
  /\ trace = <<>>
  /\ last = NoCall

DefaultConfig == [is_ens |-> TRUE, N |-> 3, LP |-> FALSE, store_u |-> TRUE,
                  thr |-> comp_threshold_3]

Init ==
  /\ InitEngine
  /\ aef = 0
  /\ ait = 0
  /\ rnk = 0

Next == Assess

Spec == Init /\ [][Next]_vars

----
(* The rank histogram as a function of the ensemble and the truth *)

MemberVals == {1, 3, 5}
TruthVals == {2, 3}
Dims == {1, 2}

InitRH ==
  /\ cfg = DefaultConfig
  /\ IdleEngine
  /\ has_w = "unset"
  /\ lplot = "absent"
  /\ aef = 0
  /\ ait = 0
  /\ \E N \in 1..MaxN, m \in Dims :
       rnk \in [pc : {"start"}, E : [1..N -> [1..m -> MemberVals]],
                x : [1..m -> TruthVals], rh : {<<>>}]

\* lines 185-186 applied to E and x
ComputeRank ==
  /\ rnk.pc = "start"
  /\ rnk' = [rnk EXCEPT !.pc = "done", !.rh = RankHist(rnk.E, rnk.x)]
  /\ UNCHANGED <<engineVars, aef, ait>>

SpecRH == InitRH /\ [][ComputeRank]_vars

----
(* average_each_field (src/stats.py:289-304) *)

RECURSIVE Gcd(_, _)
Gcd(a, b) == IF b = 0 THEN a ELSE Gcd(b, a % b)

\* the rational n/d in lowest terms
Frac(n, d) == [num |-> n \div Gcd(n, d), den |-> d \div Gcd(n, d)]

\* mean(list): the sum over the count
Mean(s) == Frac(SumSeq(s), Len(s))

\* np.transpose(ss)
Transpose(ss) == [j \in 1..Len(ss[1]) |-> [i \in 1..Len(ss) |-> ss[i][j]]]

\* val_with_conf
val_with_conf(val, conf) == [val |-> val, conf |-> conf]

\* lines 299-301: the mean value, and the mean confidence over sqrt(N),
\* kept as the pair (mean confidence, N)
FieldAverage(row, key, N) ==
  val_with_conf(Mean([j \in 1..Len(row) |-> row[j][key].val]),
                [mean |-> Mean([j \in 1..Len(row) |-> row[j][key].conf]), root |-> N])

\* fault: N taken from the first axis (N,m = ss.shape)
average_each_field_RowCount(ss, axis) ==
  LET t    == IF axis = "0" THEN Transpose(ss) ELSE ss
      N    == Len(t)
      keys == DOMAIN t[1][1]
  IN IF \E i \in 1..Len(t), j \in 1..Len(t[1]) : ~(keys \subseteq DOMAIN t[i][j])
     THEN [err |-> "KeyError", avrg |-> <<>>]
     ELSE [err |-> "none",
           avrg |-> [i \in 1..Len(t) |-> [key \in keys |-> FieldAverage(t[i], key, N)]]]

\* average_each_field(ss, axis): s_ij[key] of a dictionary without the key
\* is a KeyError
average_each_field(ss, axis) ==
  LET t    == IF axis = "0" THEN Transpose(ss) ELSE ss
      N    == Len(t[1])
      keys == DOMAIN t[1][1]
  IN IF \E i \in 1..Len(t), j \in 1..N : ~(keys \subseteq DOMAIN t[i][j])
     THEN [err |-> "KeyError", avrg |-> <<>>]
     ELSE [err |-> "none",
           avrg |-> [i \in 1..Len(t) |-> [key \in keys |-> FieldAverage(t[i], key, N)]]]

VC(v, c) == [val |-> v, conf |-> c]

\* the per-trial dictionaries of the inputs
TrialDicts == {[key \in {"x"} |-> VC(5, 1)],
               [key \in {"x"} |-> VC(1, 2)],
               [key \in {"x", "y"} |-> IF key = "x" THEN VC(5, 1) ELSE VC(3, 2)]}

FieldCounts == {1, 2}

Axes == {"None", "0"}

\* fbt is the fields-by-trials collection; with axis=0 the caller passes it
\* trials-by-fields
InitAEF ==
  /\ cfg = DefaultConfig
  /\ IdleEngine
  /\ has_w = "unset"
  /\ lplot = "absent"
  /\ ait = 0
  /\ rnk = 0
  /\ \E m \in FieldCounts, N \in 1..MaxTrials :
     \E fbt \in [1..m -> [1..N -> TrialDicts]], axis \in Axes :
       aef = [pc |-> "start", ss |-> IF axis = "0" THEN Transpose(fbt) ELSE fbt,
              axis |-> axis, err |-> "none", avrg |-> <<>>]

AverageEachField ==
  /\ aef.pc = "start"
  /\ LET r == average_each_field(aef.ss, aef.axis)
     IN aef' = [aef EXCEPT !.pc = "done", !.err = r.err, !.avrg = r.avrg]
  /\ UNCHANGED <<engineVars, ait, rnk>>

SpecAEF == InitAEF /\ [][AverageEachField]_vars

----
(* Stats.average_in_time (src/stats.py:229-264) *)

Attr(name, kind, ndim, len) == [name |-> name, kind |-> kind, ndim |-> ndim, len |-> len]

\* key.startswith('_')
IsPrivate(name) == name \in {"_is_ens", "_has_w", "_scratch"}

\* vars(self), in assignment order: the attributes __init__ sets (an array
\* trHK, infl of one entry per observation), those assess sets, and those the
\* user assigned
Attributes(c, hasw, lp, lenObs, extra) ==
  <<Attr("config", "object", 0, 0), Attr("setup", "object", 0, 0),
    Attr("xx", "ndarray", 2, 0), Attr("yy", "ndarray", 2, 0)>>
  \o [i \in 1..9 |->
        Attr(<<"mu", "var", "mad", "err", "logp_m", "skew", "kurt", "rmv", "rmse">>[i],
             "FAU_series", 0, 0)]
  \o <<Attr("_is_ens", "scalar", 0, 0)>>
  \o (IF c.is_ens
      THEN <<Attr("w", "FAU_series", 0, 0), Attr("rh", "FAU_series", 0, 0)>>
      ELSE <<>>)
  \o <<Attr("svals", "FAU_series", 0, 0), Attr("umisf", "FAU_series", 0, 0),
       Attr("trHK", "ndarray", 1, lenObs), Attr("infl", "ndarray", 1, lenObs)>>
  \o (IF hasw # "unset" THEN <<Attr("_has_w", "scalar", 0, 0)>> ELSE <<>>)
  \o (IF lp = "present" THEN <<Attr("lplot", "object", 0, 0)>> ELSE <<>>)
  \o extra

\* the sub-slots FAU_series.average() returns: the populated ones
FAUAverage(c) == IF c.store_u THEN {"f", "a", "u"} ELSE {"f", "a"}

\* lines 237-261 for one attribute: the entries added to avrg, or the
\* exception raised.  NotImplementedError is caught at line 262; len() of a
\* 0-d array is a TypeError
Reduce(c, a, lenObs, lenFull) ==
  IF a.kind = "FAU_series"
  THEN [exc |-> "none",
        add |-> [key \in {<<a.name, sub>> : sub \in FAUAverage(c)} |->
                   [by |-> "FAU_series.average", inds |-> key[2]]]]
  ELSE IF a.kind = "ndarray"
  THEN IF a.ndim > 1 THEN [exc |-> "NotImplementedError", add |-> <<>>]
       ELSE IF a.ndim = 0 THEN [exc |-> "TypeError", add |-> <<>>]
       ELSE IF a.len = lenObs
       THEN [exc |-> "none",
             add |-> [key \in {<<a.name, "">>} |->
                        [by |-> "series_mean_with_conf", inds |-> "maskObs_BI"]]]
       ELSE IF a.len = lenFull
       THEN [exc |-> "none",
             add |-> [key \in {<<a.name, "">>} |->
                        [by |-> "series_mean_with_conf", inds |-> "kk_BI"]]]
       ELSE [exc |-> "ValueError", add |-> <<>>]
  ELSE IF a.kind = "scalar"
  THEN [exc |-> "none",
        add |-> [key \in {<<a.name, "">>} |-> [by |-> "scalar", inds |-> ""]]]
  ELSE [exc |-> "NotImplementedError", add |-> <<>>]

\* lines 234-264: the loop over the attributes from position i on
RECURSIVE average_loop(_, _, _, _, _, _)
average_loop(c, attrs, i, lenObs, lenFull, avrg) ==
  IF i > Len(attrs) THEN [err |-> "none", avrg |-> avrg]
  ELSE IF IsPrivate(attrs[i].name)
  THEN average_loop(c, attrs, i + 1, lenObs, lenFull, avrg)
  ELSE LET r == Reduce(c, attrs[i], lenObs, lenFull)
       IN IF r.exc = "NotImplementedError"
          THEN average_loop(c, attrs, i + 1, lenObs, lenFull, avrg)
          ELSE IF r.exc # "none" THEN [err |-> r.exc, avrg |-> <<>>]
          ELSE average_loop(c, attrs, i + 1, lenObs, lenFull,
                            [key \in DOMAIN avrg \cup DOMAIN r.add |->
                               IF key \in DOMAIN r.add THEN r.add[key] ELSE avrg[key]])

average_in_time(c, attrs, lenObs, lenFull) ==
  average_loop(c, attrs, 1, lenObs, lenFull, [key \in {} |-> 0])

\* what a user may assign to the engine: 1-D arrays of any length, a 0-d and
\* a 2-D array, a number, a list, a private array
UserAttrs ==
  {Attr("resmpl", "ndarray", 1, l) : l \in 1..MaxLen}
  \cup {Attr("total", "ndarray", 0, 0), Attr("cov", "ndarray", 2, 0),
        Attr("nIter", "scalar", 0, 0), Attr("notes", "object", 0, 0),
        Attr("_scratch", "ndarray", 1, MaxLen + 1)}

UserAssigned ==
  {e \in UNION {[1..n -> UserAttrs] : n \in 0..MaxExtra} :
     \A i, j \in DOMAIN e : i # j => e[i].name # e[j].name}

\* the engine average_in_time is called on: either paradigm, store_u or not,
\* with or without the attributes assess adds (_has_w, lplot); the contents
\* of the series do not enter the reduction
InitAIT ==
  /\ cfg \in {c \in Configs : ~c.LP /\ c.thr = comp_threshold_3 /\ c.N \in {0, 3}}
  /\ IdleEngine
  /\ has_w \in {"unset", "True"}
  /\ lplot \in {"absent", "present"}
  /\ aef = 0
  /\ rnk = 0
  /\ \E lenObs \in 1..MaxLen, lenFull \in 1..MaxLen, extra \in UserAssigned :
       ait = [pc |-> "start", lenObs |-> lenObs, lenFull |-> lenFull,
              attrs |-> Attributes(cfg, has_w, lplot, lenObs, extra),
              err |-> "none", avrg |-> <<>>]

AverageInTime ==
  /\ ait.pc = "start"
  /\ LET r == average_in_time(cfg, ait.attrs, ait.lenObs, ait.lenFull)
     IN ait' = [ait EXCEPT !.pc = "done", !.err = r.err, !.avrg = r.avrg]
  /\ UNCHANGED <<engineVars, aef, rnk>>

SpecAIT == InitAIT /\ [][AverageInTime]_vars

----
(* Properties of Stats.assess *)

Called == last.k >= 0

\* the key of the latest call
LastKey(tag) == <<last.k, last.kObs, tag>>

\* the paradigm arms the latest call invoked
ArmCalls == {i \in DOMAIN last.calls : last.calls[i].fn \in {"assess_ens", "assess_ext"}}

\* the latest call's arm ran to its end
ArmDone == ArmCalls # {} /\ (last.err.kind = "none" \/ last.err.msg = "self.lplot")

NoSeriesWritten ==
  /\ series = last.before
  /\ \A i \in (last.t0 + 1)..Len(trace) : trace[i].op # "w"

\* the arguments match the paradigm fixed at construction
MatchesParadigm ==
  IF cfg.is_ens THEN ~IsNone(last.E) /\ IsNone(last.mu)
                ELSE ~IsNone(last.mu) /\ IsNone(last.E)

\* the k==0 call whose arguments pass the initial checks, and any later call
PassesChecks == last.k # 0 \/ (last.kObs = NoObs /\ MatchesParadigm)

\* C1: a k==0 call gets past the initial checks only with kObs absent and the
\* paradigm's inputs (E without mu in ensemble mode, mu without E in Gaussian
\* mode; w and Cov play no part).  Every other k==0 call raises, KeyError for
\* a present kObs and TypeError for a mismatch, before either arm or the
\* live plot is invoked and without a series write.
C1_InitialChecks ==
  (Called /\ last.k = 0) =>
    /\ (last.kObs # NoObs) =>
         last.err.kind = "KeyError" /\ last.calls = <<>> /\ NoSeriesWritten
    /\ (last.kObs = NoObs /\ ~MatchesParadigm) =>
         last.err.kind = "TypeError" /\ last.calls = <<>> /\ NoSeriesWritten
    /\ (last.kObs = NoObs /\ MatchesParadigm) =>
         \/ ArmCalls # {}
         \/ SkipAssessment(cfg, last.kObs) /\ last.err.kind = "none"

C1_Witness ==
  /\ last.k = 0 /\ last.kObs # NoObs /\ ~cfg.is_ens /\ last.f_a_u = "fau"
  /\ ~IsNone(last.mu) /\ ~IsNone(last.Cov) /\ IsNone(last.E)
  /\ last.err.kind = "KeyError"

\* the weight vector assess_ens resolves from its argument w
ResolvedWeights ==
  IF IsNone(last.w) THEN [i \in 1..Len(last.E.v) |-> Micro \div Len(last.E.v)]
  ELSE IF last.w.kind = "scalar" THEN [i \in 1..Len(last.E.v) |-> last.w.s]
  ELSE last.w.v

WeightsMsg == "Weights did not sum to one."

C3_ErrorNamesStep ==
  (Called /\ last.err.kind = "AssimFailedError") =>
    \E tag \in {"u", "a", "f", "au", "fau"} : last.err.step = <<LastKey(tag)>>

\* the tag the claim gives for (f_a_u, kObs)
ClaimedTag ==
  CASE last.f_a_u = NoTag /\ last.kObs = NoObs -> "u"
    [] last.f_a_u = NoTag /\ last.kObs # NoObs -> "au"
    [] last.f_a_u = "fau" /\ last.kObs = NoObs -> "u"
    [] OTHER -> last.f_a_u

\* C4: the key handed to the arm is (k, kObs, tag) with tag 'u' for an
\* unspecified f_a_u without kObs, 'au' for an unspecified f_a_u with kObs,
\* 'u' for 'fau' without kObs, and the caller's f_a_u otherwise.
C4_TagResolution ==
  \A i \in ArmCalls : last.calls[i].key = <<last.k, last.kObs, ClaimedTag>>

C4_Witness ==
  /\ Called /\ last.f_a_u = "fau" /\ last.kObs = NoObs /\ last.k > 0
  /\ \E i \in ArmCalls : last.calls[i].key = <<last.k, NoObs, "u">>

\* C5: with live-plotting and store_u both off and kObs absent, a call that
\* passes the checks invokes nothing and changes nothing; every other call
\* that passes them invokes exactly one arm, once and first, with the key and
\* the paradigm's parameters.
C5_SkipRule ==
  (Called /\ PassesChecks) =>
    IF ~cfg.LP /\ ~cfg.store_u /\ last.kObs = NoObs
    THEN /\ last.calls = <<>> /\ last.err.kind = "none"
         /\ NoSeriesWritten /\ Len(trace) = last.t0
    ELSE /\ Cardinality(ArmCalls) = 1
         /\ last.calls[1] =
              IF cfg.is_ens
              THEN Call("assess_ens", LastKey(ClaimedTag), last.E, last.w)
              ELSE Call("assess_ext", LastKey(ClaimedTag), last.mu, last.Cov)

C5_Witness ==
  /\ Called /\ last.k = 0 /\ PassesChecks /\ cfg.is_ens /\ last.E = GoodEns(cfg.N)
  /\ ~cfg.LP /\ ~cfg.store_u /\ last.kObs = NoObs
  /\ last.calls = <<>> /\ trace = <<>>

\* the key of the latest call as the arm received it
ArmKey == last.calls[1].key

\* the sizes of the ensemble the latest call assessed
OverThreshold == StateDim * Len(last.E.v) > cfg.thr * cfg.thr

\* C9 as stated: every step assess_ens assesses records rh, whatever the
\* sizes; only svals and umisf depend on the cost heuristic.
C9_RankAlwaysRecorded ==
  (Called /\ cfg.is_ens /\ ArmDone) => Written(series["rh"], ArmKey)

\* C9 (amended): rh is recorded together with svals and umisf, on exactly the
\* assessed steps with sqrt(m*N) <= comp_threshold_3; a step over the
\* threshold writes none of the three.
C9_RankWithinThreshold ==
  (Called /\ cfg.is_ens /\ ArmDone) =>
    /\ Written(series["rh"], ArmKey) <=> ~OverThreshold
    /\ Written(series["svals"], ArmKey) <=> ~OverThreshold
    /\ Written(series["umisf"], ArmKey) <=> ~OverThreshold

C9_Witness ==
  /\ Called /\ cfg.is_ens /\ ArmDone /\ OverThreshold /\ cfg.N = 3
  /\ Written(series["mu"], ArmKey)
  /\ ~Written(series["rh"], ArmKey) /\ ~Written(series["svals"], ArmKey)

\* the events of the latest call: trace[i] for i in Segment
Segment == (last.t0 + 1)..Len(trace)

\* the number of writes of series s at the call's key during the latest call
WriteCount(s) ==
  Cardinality({i \in Segment : trace[i] = [op |-> "w", s |-> s, key |-> ArmKey]})

\* every read of an entry comes after a write of that entry
ReadsAfterWrites ==
  \A j \in Segment :
    trace[j].op = "r" =>
      \E i \in Segment :
        i < j /\ trace[i] = [op |-> "w", s |-> trace[j].s, key |-> trace[j].key]

\* the latest call touched its own key only, a key no earlier step has used,
\* and left every entry of the earlier steps as it was
EarlierStepsUntouched ==
  /\ \A i \in Segment : trace[i].key = ArmKey
  /\ \A i \in 1..last.t0 : trace[i].key[1] < last.k
  /\ \A s \in DOMAIN last.before : \A key \in DOMAIN last.before[s] :
       key # ArmKey /\ key \in DOMAIN series[s] /\ series[s][key] = last.before[s][key]

\* the series every assessed key gets an entry of
AlwaysWritten ==
  {"mu", "var", "mad", "err", "rmv", "rmse", "logp_m"}
  \cup (IF cfg.is_ens THEN {"w", "skew", "kurt"} ELSE {})

\* C10 as stated: with assess called once per step in increasing k, every
\* series entry is written exactly once per assessed key and never modified
\* afterwards, and every read of an entry follows its write.
C10_WriteOnce ==
  (Called /\ ArmCalls # {}) =>
    /\ \A s \in DOMAIN series : WriteCount(s) <= 1
    /\ ArmDone => \A s \in AlwaysWritten : WriteCount(s) = 1
    /\ ReadsAfterWrites
    /\ EarlierStepsUntouched

\* C10 (amended): the same, except that assess_ens writes var twice for its
\* key (line 154, then line 158 rescales it in place by ub, before any other
\* statement reads it) and that svals, umisf and rh get their single write
\* only when the cost heuristic holds.
C10_WriteOnceExceptVar ==
  (Called /\ ArmCalls # {}) =>
    /\ \A s \in DOMAIN series :
         WriteCount(s) <= (IF s = "var" /\ cfg.is_ens THEN 2 ELSE 1)
    /\ ArmDone =>
         /\ \A s \in AlwaysWritten :
              WriteCount(s) = (IF s = "var" /\ cfg.is_ens THEN 2 ELSE 1)
         /\ \A s \in {"svals", "umisf", "rh"} \cap DOMAIN series :
              WriteCount(s) = (IF Written(series[s], ArmKey) THEN 1 ELSE 0)
         /\ cfg.is_ens =>
              \E i \in Segment :
                /\ i < Len(trace)
                /\ trace[i] = [op |-> "r", s |-> "var", key |-> ArmKey]
                /\ trace[i + 1] = [op |-> "w", s |-> "var", key |-> ArmKey]
                /\ \A h \in Segment :
                     h < i => trace[h] # [op |-> "r", s |-> "var", key |-> ArmKey]
    /\ ReadsAfterWrites
    /\ EarlierStepsUntouched

C10_Witness ==
  /\ Called /\ last.k = MaxK /\ ArmDone /\ cfg.is_ens
  /\ DOMAIN last.before["var"] # {}
  /\ WriteCount("var") = 2 /\ WriteCount("rh") = 1 /\ WriteCount("mu") = 1

----
(* Properties of the rank histogram *)

\* the orderings of N members
Orderings(N) == {p \in [1..N -> 1..N] : \A a, b \in 1..N : p[a] = p[b] => a = b}

\* C6: the recorded rank of each dimension lies in 0..N, is the number of
\* members below the truth in that dimension, and is the same for every
\* ordering of the members, also when a member equals the truth; E=[1,3,5]
\* and x=2 give rank 1 in all 6 orderings.
C6_RankHistogram ==
  rnk.pc = "done" =>
    LET N == Len(rnk.E)
    IN /\ DOMAIN rnk.rh = DOMAIN rnk.x
       /\ \A i \in DOMAIN rnk.x :
            /\ rnk.rh[i] \in 0..N
            /\ rnk.rh[i] = Cardinality({r \in 1..N : rnk.E[r][i] < rnk.x[i]})
       /\ \A p \in Orderings(N) : RankHist([r \in 1..N |-> rnk.E[p[r]]], rnk.x) = rnk.rh
       /\ (N = 3 /\ rnk.x = <<2>> /\ {rnk.E[r][1] : r \in 1..N} = {1, 3, 5}) => rnk.rh = <<1>>

C6_Witness ==
  /\ rnk.pc = "done"
  /\ rnk.E = <<<<5, 3>>, <<1, 3>>, <<3, 5>>>>
  /\ rnk.x = <<2, 3>>
  /\ rnk.rh = <<1, 0>>

----
(* Properties of average_each_field *)

\* the collection as fields by trials
FieldsByTrials == IF aef.axis = "0" THEN Transpose(aef.ss) ELSE aef.ss

\* the input with trials a and b of field i exchanged
TrialsSwapped(i, a, b) ==
  LET f == [FieldsByTrials EXCEPT ![i][a] = FieldsByTrials[i][b],
                                  ![i][b] = FieldsByTrials[i][a]]
  IN IF aef.axis = "0" THEN Transpose(f) ELSE f

\* the result holds, for each field and each key of ss[0][0], the mean of the
\* per-trial values and the mean of the per-trial confidences over
\* sqrt(number of trials)
MeansOverTrials ==
  LET f == FieldsByTrials
      N == Len(f[1])
  IN /\ Len(aef.avrg) = Len(f)
     /\ \A i \in 1..Len(f) :
          /\ DOMAIN aef.avrg[i] = DOMAIN f[1][1]
          /\ \A key \in DOMAIN f[1][1] :
               LET r == aef.avrg[i][key]
               IN /\ r.val.num * N = r.val.den * SumSeq([j \in 1..N |-> f[i][j][key].val])
                  /\ r.conf.mean.num * N =
                       r.conf.mean.den * SumSeq([j \in 1..N |-> f[i][j][key].conf])
                  /\ r.conf.root = N

\* 4 trials of {x: (5.0, 1.0)} give value 5.0 and confidence 1.0/sqrt(4) = 0.5
FourTrialsExample ==
  LET f == FieldsByTrials
  IN (Len(f[1]) = 4 /\ \A i \in 1..Len(f), j \in 1..4 : f[i][j] = [key \in {"x"} |-> VC(5, 1)]) =>
       \A i \in 1..Len(f) :
         /\ aef.avrg[i]["x"].val = [num |-> 5, den |-> 1]
         /\ aef.avrg[i]["x"].conf = [mean |-> [num |-> 1, den |-> 1], root |-> 4]

\* C7 as stated: the call returns the means over the trials for every key of
\* ss[0][0], and the result does not depend on the order of the trials
\* within a row.
C7_OrderIndependent ==
  aef.pc = "done" =>
    /\ aef.err = "none" => MeansOverTrials /\ FourTrialsExample
    /\ \A i \in 1..Len(FieldsByTrials) : \A a, b \in 1..Len(FieldsByTrials[1]) :
         a < b => average_each_field(TrialsSwapped(i, a, b), aef.axis)
                    = [err |-> aef.err, avrg |-> aef.avrg]

\* C7 (amended): the call returns those means when every dictionary holds
\* every key of ss[0][0], and raises KeyError otherwise; the result depends
\* on the order of the trials within a row only through the keys of
\* ss[0][0]: any exchange of trials that leaves them unchanged gives the same
\* result.
C7_MeansGivenKeys ==
  aef.pc = "done" =>
    LET f == FieldsByTrials
        complete == \A i \in 1..Len(f), j \in 1..Len(f[1]) :
                      DOMAIN f[1][1] \subseteq DOMAIN f[i][j]
    IN /\ aef.err = (IF complete THEN "none" ELSE "KeyError")
       /\ complete => MeansOverTrials /\ FourTrialsExample
       /\ \A i \in 1..Len(f) : \A a, b \in 1..Len(f[1]) :
            LET g == TrialsSwapped(i, a, b)
                first == IF aef.axis = "0" THEN Transpose(g)[1][1] ELSE g[1][1]
            IN (a < b /\ DOMAIN first = DOMAIN f[1][1]) =>
                 average_each_field(g, aef.axis) = [err |-> aef.err, avrg |-> aef.avrg]

C7_Witness ==
  /\ aef.pc = "done" /\ aef.axis = "0" /\ aef.err = "none"
  /\ aef.ss = [j \in 1..4 |-> <<[key \in {"x"} |-> VC(5, 1)],
                                [key \in {"x", "y"} |-> IF key = "x" THEN VC(5, 1) ELSE VC(3, 2)]>>]
  /\ aef.avrg[1]["x"] = VC([num |-> 5, den |-> 1], [mean |-> [num |-> 1, den |-> 1], root |-> 4])
  /\ Len(aef.avrg) = 2

----
(* Properties of average_in_time *)

PublicAttrs == {i \in DOMAIN ait.attrs : ~IsPrivate(ait.attrs[i].name)}

\* a public 1-D array whose length is that of neither grid
Unmatched(a) ==
  a.kind = "ndarray" /\ a.ndim = 1 /\ a.len # ait.lenObs /\ a.len # ait.lenFull

\* C8: private attributes are skipped; a FAU series gives one entry name_sub
\* per sub-slot of its average(); a 1-D array is averaged over the
\* observation mask when its length is the observation grid's, else over the
\* full grid when its length is the full grid's; a scalar passes through;
\* arrays of more dimensions and other objects are left out; and
\* average_in_time fails exactly when some public 1-D array matches neither
\* grid, with that structural error.
C8_OutcomePartition ==
  ait.pc = "done" =>
    /\ ait.err = (IF \E i \in PublicAttrs : Unmatched(ait.attrs[i])
                  THEN "ValueError" ELSE "none")
    /\ ait.err = "none" =>
         /\ DOMAIN ait.avrg =
              UNION {LET a == ait.attrs[i]
                     IN IF a.kind = "FAU_series"
                        THEN {<<a.name, sub>> : sub \in FAUAverage(cfg)}
                        ELSE IF a.kind = "scalar" \/ (a.kind = "ndarray" /\ a.ndim = 1)
                        THEN {<<a.name, "">>}
                        ELSE {} : i \in PublicAttrs}
         /\ \A i \in PublicAttrs :
              LET a == ait.attrs[i]
              IN /\ a.kind = "scalar" => ait.avrg[<<a.name, "">>].by = "scalar"
                 /\ (a.kind = "ndarray" /\ a.ndim = 1) =>
                      ait.avrg[<<a.name, "">>] =
                        [by |-> "series_mean_with_conf",
                         inds |-> IF a.len = ait.lenObs THEN "maskObs_BI" ELSE "kk_BI"]

====
